---- MODULE Spec2Model ----
(***************************************************************************)
(* Model of the invoice router (invoicesRouter) and of the three tables it *)
(* writes: addresses, invoices and invoice_items.                          *)
(*                                                                         *)
(* Amounts (invoice total, item price, item total) are JavaScript numbers  *)
(* at the API boundary and DECIMAL(10,2) columns in storage.  The model    *)
(* counts every amount in units of 0.005, so that a difference below,      *)
(* equal to and above the 0.01 tolerance of create can all be written, and *)
(* so that the rounding of the DECIMAL(10,2) columns is visible.  Sums are *)
(* exact (the rounding error of floating-point addition is not modelled).  *)
(*                                                                         *)
(* The free-text columns of an invoice (description, paymentTerms,         *)
(* clientName, clientEmail) and the updatedAt columns are copied by the    *)
(* code and read by no operation; the model leaves them out.               *)
(***************************************************************************)
EXTENDS Integers, Sequences, FiniteSets, TLC

(* ------------------------------ bounds --------------------------------- *)
\* Largest invoice id the autoincrement counter hands out.
MaxInvoiceId == 2
\* Largest invoice-item id the autoincrement counter hands out.
MaxItemId == 3
\* Longest items array of a create input.
MaxItems == 2
\* Largest amount of an input, in units of 0.005.
MaxAmount == 3
\* Largest value of the clock behind defaultNow().
MaxClock == 1
\* Largest payment-due date of a create input.
MaxDate == 2
\* Largest limit and largest offset of a getAll input.
MaxLimit == 2
MaxOffset == 1

\* create inserts two addresses per invoice, and nothing else inserts any.
MaxAddressId == MaxInvoiceId + MaxInvoiceId

(* ----------------------------- constants ------------------------------- *)
\* SQL NULL in a nullable bigint column; ids are positive.
NULL == 0
\* The 0.01 tolerance of create, in units of 0.005.
TOLERANCE == 2

Statuses == {"draft", "pending", "paid"}
Amounts == 1..MaxAmount
Dates == 1..MaxDate

VARIABLES addresses, invoices, invoiceItems, autoInc, now, response, txs

tables == <<addresses, invoices, invoiceItems>>
vars == <<addresses, invoices, invoiceItems, autoInc, now, response, txs>>

(* ------------------------------ values --------------------------------- *)
Abs(x) == IF x < 0 THEN -x ELSE x

RECURSIVE SumTotals(_)
\* items.reduce((sum, item) => sum + item.total, 0)
SumTotals(items) ==
  IF items = <<>> THEN 0 ELSE Head(items).total + SumTotals(Tail(items))

\* number.toString() stored in a DECIMAL(10,2) column: the value is rounded
\* to two decimals, halves away from zero (amounts are positive).
ToDecimal(x) == ((x + 1) \div 2) * 2

NoError == [name |-> "none"]
\* new Error(message)
GenericError(msg) == [name |-> "Error", message |-> msg]
\* a failure of the database client while it runs a statement
DriverError == [name |-> "DriverError", message |-> <<"statement failed">>]

\* class ReferentialIntegrityError extends Error
ReferentialIntegrityError(msg) ==
  [name |-> "ReferentialIntegrityError", message |-> msg]

\* new TRPCError({ code, message })
TRPCError(code, msg) == [name |-> "TRPCError", code |-> code, message |-> msg]

(* ---------------------------- the database ----------------------------- *)
\* The committed tables and the autoincrement counters as one value.
Db == [addresses |-> addresses, invoices |-> invoices,
       invoiceItems |-> invoiceItems, autoInc |-> autoInc]

\* Restriction of a table to the rows whose id is in S.
Keep(table, S) == [id \in S |-> table[id]]

\* tx.insert(table).values(row): the row gets the next autoincrement id.
Insert(d, t, row) ==
  LET id == d.autoInc[t]
  IN [d EXCEPT ![t] = (id :> row) @@ @, !.autoInc[t] = id + 1]

RECURSIVE InsertAll(_, _, _)
\* tx.insert(table).values(rows): consecutive ids in the order of the array.
InsertAll(d, t, rows) ==
  IF rows = <<>> THEN d ELSE InsertAll(Insert(d, t, Head(rows)), t, Tail(rows))

\* tx.delete(table).where(inArray(table.id, ids))
DeleteIds(d, t, ids) == [d EXCEPT ![t] = Keep(@, DOMAIN @ \ ids)]

(* --------------------------- a transaction ----------------------------- *)
\* The state of a running transaction body: the tables as the transaction
\* sees them, the number of statements it has run, the statement at which
\* the database client fails (0: none), the raised error, the return value.
Begin(d, fault) ==
  [db |-> d, stmts |-> 0, fault |-> fault, error |-> NoError, value |-> <<>>]

\* await tx.<statement>: the statement throws if the client fails at it,
\* and otherwise leaves the tables as newDb.  Nothing runs after a throw.
Exec(c, newDb) ==
  IF c.error # NoError THEN c
  ELSE IF c.stmts + 1 = c.fault THEN [c EXCEPT !.error = DriverError]
  ELSE [c EXCEPT !.db = newDb, !.stmts = @ + 1]

\* throw e
Throw(c, e) == IF c.error # NoError THEN c ELSE [c EXCEPT !.error = e]

\* return v
Return(c, v) == IF c.error # NoError THEN c ELSE [c EXCEPT !.value = v]

\* Transaction without rollback: the writes of a failed body stay.
Transaction_NoRollback(d, c) == c

\* ctx.db.transaction(body): commits the body's writes when it returns, and
\* rolls all of them back when it throws.  Autoincrement values handed out
\* are not given back.
Transaction(d, c) ==
  IF c.error = NoError THEN c
  ELSE [c EXCEPT !.db = [d EXCEPT !.autoInc = c.db.autoInc]]

\* A catch that reports every error as a bad request.
Catch_Every(c) ==
  IF c.error # NoError
  THEN [c EXCEPT !.error = TRPCError("BAD_REQUEST", c.error.message)]
  ELSE c

\* catch (error) of create, update, delete and addItem.
Catch(c) ==
  IF c.error.name = "ReferentialIntegrityError"
  THEN [c EXCEPT !.error = TRPCError("BAD_REQUEST", c.error.message)]
  ELSE c

(* ---------------------------- validators ------------------------------- *)
\* validateAddressExists that never throws.
ValidateAddressExists_NoCheck(c, addressId, addressType) ==
  IF addressId = NULL THEN c ELSE Exec(c, c.db)

\* validateAddressExists(tx, addressId, addressType)
ValidateAddressExists(c, addressId, addressType) ==
  IF addressId = NULL THEN c
  ELSE LET c1 == Exec(c, c.db)
       IN IF addressId \in DOMAIN c1.db.addresses THEN c1
          ELSE Throw(c1, ReferentialIntegrityError(
                 <<addressType, "address with ID", addressId, "does not exist">>))

\* validateInvoiceExists(tx, invoiceId)
ValidateInvoiceExists(c, invoiceId) ==
  LET c1 == Exec(c, c.db)
  IN IF invoiceId \in DOMAIN c1.db.invoices THEN c1
     ELSE Throw(c1, ReferentialIntegrityError(
            <<"Invoice with ID", invoiceId, "does not exist">>))

\* The invoices that reference addressId as sender or as client.
Referencing(d, addressId) ==
  {i \in DOMAIN d.invoices : \/ d.invoices[i].senderAddressId = addressId
                             \/ d.invoices[i].clientAddressId = addressId}

\* checkAddressInUse that counts the sender references only.
CheckAddressInUse_SenderOnly(d, addressId) ==
  [type |-> "number",
   value |-> Cardinality({i \in DOMAIN d.invoices :
                            d.invoices[i].senderAddressId = addressId})]

\* checkAddressInUse(tx, addressId): `usage?.count ?? 0 > 0` parses as
\* `usage?.count ?? (0 > 0)`, and the count query always yields one row, so
\* the function returns the count itself.
CheckAddressInUse(d, addressId) ==
  [type |-> "number", value |-> Cardinality(Referencing(d, addressId))]

\* JavaScript truthiness of a number or a boolean.
Truthy(v) == IF v.type = "boolean" THEN v.value ELSE v.value # 0

(* ------------------------------ create --------------------------------- *)
AddressInputs ==
  {[street |-> "s1", city |-> "c1", postCode |-> "p1", country |-> "FR"],
   [street |-> "s2", city |-> "c2", postCode |-> "p2", country |-> "UK"]}

ItemInputs == {[name |-> "item", quantity |-> 1, price |-> t, total |-> t] : t \in Amounts}

ItemLists == UNION {[1..n -> ItemInputs] : n \in 1..MaxItems}

CreateInputs ==
  [paymentDue : Dates, status : Statuses, total : Amounts,
   senderAddress : AddressInputs, clientAddress : AddressInputs, items : ItemLists]

\* The item rows of create: input.items.map(...)
InvoiceItemsData(items, invoiceId) ==
  [k \in 1..Len(items) |->
     [invoiceId |-> invoiceId, name |-> items[k].name, quantity |-> items[k].quantity,
      price |-> ToDecimal(items[k].price), total |-> ToDecimal(items[k].total)]]

\* create that stores one address row when sender and client are equal.
CreateBody_OneAddress(d, input, fault) ==
  LET c0 == Begin(d, fault)
      calculatedTotal == SumTotals(input.items)
  IN IF Abs(calculatedTotal - input.total) > TOLERANCE
     THEN Throw(c0, GenericError(<<"Items total does not match invoice total">>))
     ELSE
       LET same == input.senderAddress = input.clientAddress
           senderId == c0.db.autoInc.addresses
           c1 == Exec(c0, Insert(c0.db, "addresses", input.senderAddress))
           clientId == IF same THEN senderId ELSE c1.db.autoInc.addresses
           c2 == IF same THEN c1
                 ELSE Exec(c1, Insert(c1.db, "addresses", input.clientAddress))
           invoiceId == c2.db.autoInc.invoices
           c3 == Exec(c2, Insert(c2.db, "invoices",
                   [paymentDue |-> input.paymentDue, status |-> input.status,
                    total |-> ToDecimal(input.total),
                    senderAddressId |-> senderId, clientAddressId |-> clientId,
                    createdAt |-> now]))
           c4 == Exec(c3, InsertAll(c3.db, "invoiceItems",
                   InvoiceItemsData(input.items, invoiceId)))
       IN Return(c4, [id |-> invoiceId, senderAddressId |-> senderId,
                      clientAddressId |-> clientId])

\* The transaction body of create.
CreateBody(d, input, fault) ==
  LET c0 == Begin(d, fault)
      calculatedTotal == SumTotals(input.items)
  IN IF Abs(calculatedTotal - input.total) > TOLERANCE
     THEN Throw(c0, GenericError(<<"Items total does not match invoice total">>))
     ELSE
       LET senderId == c0.db.autoInc.addresses
           c1 == Exec(c0, Insert(c0.db, "addresses", input.senderAddress))
           clientId == c1.db.autoInc.addresses
           c2 == Exec(c1, Insert(c1.db, "addresses", input.clientAddress))
           invoiceId == c2.db.autoInc.invoices
           c3 == Exec(c2, Insert(c2.db, "invoices",
                   [paymentDue |-> input.paymentDue, status |-> input.status,
                    total |-> ToDecimal(input.total),
                    senderAddressId |-> senderId, clientAddressId |-> clientId,
                    createdAt |-> now]))
           c4 == Exec(c3, InsertAll(c3.db, "invoiceItems",
                   InvoiceItemsData(input.items, invoiceId)))
       IN Return(c4, [id |-> invoiceId, senderAddressId |-> senderId,
                      clientAddressId |-> clientId])

\* invoicesRouter.create
CreateProc(d, input, fault) == Catch(Transaction(d, CreateBody(d, input, fault)))

(* ------------------------------ update --------------------------------- *)
\* An update input is the object the caller sends: a key that is absent is
\* `undefined`, a key that maps to NULL is an explicit null.  Inputs that
\* supply no field besides id are left out.
UpdateFields == [status : Statuses, total : Amounts,
                 senderAddressId : {NULL} \cup 1..(MaxAddressId + 1),
                 clientAddressId : {NULL} \cup 1..(MaxAddressId + 1)]

UpdateKeys == {"status", "total", "senderAddressId", "clientAddressId"}

UpdateInputs ==
  {[k \in K \cup {"id"} |-> IF k = "id" THEN id ELSE f[k]] :
     K \in (SUBSET UpdateKeys) \ {{}}, id \in 1..(MaxInvoiceId + 1), f \in UpdateFields}

Supplied(input, key) == key \in DOMAIN input

\* .set({ ...updateData, total: total?.toString() }): only supplied keys are written.
SetInvoice(row, input) ==
  [col \in DOMAIN row |->
     IF col = "total" /\ Supplied(input, "total") THEN ToDecimal(input.total)
     ELSE IF col \in UpdateKeys \ {"total"} /\ Supplied(input, col) THEN input[col]
     ELSE row[col]]

\* tx.update(invoices).set(...).where(eq(invoices.id, id))
UpdateInvoice(d, id, input) ==
  [d EXCEPT !.invoices =
     [i \in DOMAIN @ |-> IF i = id THEN SetInvoice(@[i], input) ELSE @[i]]]

\* The transaction body of update.
UpdateBody(d, input, fault) ==
  LET c0 == Begin(d, fault)
      c1 == ValidateInvoiceExists(c0, input.id)
      c2 == IF Supplied(input, "senderAddressId")
            THEN ValidateAddressExists(c1, input.senderAddressId, "sender") ELSE c1
      c3 == IF Supplied(input, "clientAddressId")
            THEN ValidateAddressExists(c2, input.clientAddressId, "client") ELSE c2
      c4 == Exec(c3, UpdateInvoice(c3.db, input.id, input))
  IN Return(c4, [affectedRows |-> 1])

\* invoicesRouter.update
UpdateProc(d, input, fault) == Catch(Transaction(d, UpdateBody(d, input, fault)))

(* ------------------------------ delete --------------------------------- *)
\* The ids of the items of an invoice.
ItemsOf(d, invoiceId) ==
  {k \in DOMAIN d.invoiceItems : d.invoiceItems[k].invoiceId = invoiceId}

\* An address clean-up that deletes the address without asking whether an
\* invoice still uses it.
CleanUpAddress_Always(c, addressId) ==
  IF addressId = NULL THEN c
  ELSE LET c1 == Exec(c, c.db)
       IN Exec(c1, DeleteIds(c1.db, "addresses", {addressId}))

\* `if (addressId) { inUse = await checkAddressInUse(...); if (!inUse) delete }`
CleanUpAddress(c, addressId) ==
  IF addressId = NULL THEN c
  ELSE LET c1 == Exec(c, c.db)
           inUse == CheckAddressInUse(c1.db, addressId)
       IN IF ~Truthy(inUse) THEN Exec(c1, DeleteIds(c1.db, "addresses", {addressId}))
          ELSE c1

\* A delete body without the manual cascade to the invoice's items.
DeleteBody_NoCascade(d, id, fault) ==
  LET c0 == Begin(d, fault)
      c1 == Exec(c0, c0.db)
  IN IF id \notin DOMAIN c1.db.invoices
     THEN Throw(c1, ReferentialIntegrityError(<<"Invoice not found">>))
     ELSE
       LET invoice == c1.db.invoices[id]
           c3 == Exec(c1, DeleteIds(c1.db, "invoices", {id}))
           c4 == CleanUpAddress(c3, invoice.senderAddressId)
           c5 == CleanUpAddress(c4, invoice.clientAddressId)
       IN Return(c5, [success |-> TRUE])

\* The transaction body of delete.
DeleteBody(d, id, fault) ==
  LET c0 == Begin(d, fault)
      c1 == Exec(c0, c0.db)
  IN IF id \notin DOMAIN c1.db.invoices
     THEN Throw(c1, ReferentialIntegrityError(<<"Invoice not found">>))
     ELSE
       LET invoice == c1.db.invoices[id]
           c2 == Exec(c1, DeleteIds(c1.db, "invoiceItems", ItemsOf(c1.db, id)))
           c3 == Exec(c2, DeleteIds(c2.db, "invoices", {id}))
           c4 == CleanUpAddress(c3, invoice.senderAddressId)
           c5 == CleanUpAddress(c4, invoice.clientAddressId)
       IN Return(c5, [success |-> TRUE])

\* invoicesRouter.delete
DeleteProc(d, id, fault) == Catch(Transaction(d, DeleteBody(d, id, fault)))

(* ------------------------------ addItem -------------------------------- *)
AddItemInputs == [invoiceId : 1..(MaxInvoiceId + 1), item : ItemInputs]

\* addItem that inserts without validating the invoice.
AddItemBody_NoValidation(d, input, fault) ==
  LET c0 == Begin(d, fault)
      itemId == c0.db.autoInc.invoiceItems
      c2 == Exec(c0, Insert(c0.db, "invoiceItems",
              [invoiceId |-> input.invoiceId, name |-> input.item.name,
               quantity |-> input.item.quantity,
               price |-> ToDecimal(input.item.price),
               total |-> ToDecimal(input.item.total)]))
  IN Return(c2, [insertId |-> itemId])

\* The transaction body of addItem.
AddItemBody(d, input, fault) ==
  LET c0 == Begin(d, fault)
      c1 == ValidateInvoiceExists(c0, input.invoiceId)
      itemId == c1.db.autoInc.invoiceItems
      c2 == Exec(c1, Insert(c1.db, "invoiceItems",
              [invoiceId |-> input.invoiceId, name |-> input.item.name,
               quantity |-> input.item.quantity,
               price |-> ToDecimal(input.item.price),
               total |-> ToDecimal(input.item.total)]))
  IN Return(c2, [insertId |-> itemId])

\* invoicesRouter.addItem
AddItemProc(d, input, fault) == Catch(Transaction(d, AddItemBody(d, input, fault)))

(* -------------------------- cleanupAddresses --------------------------- *)
\* The join on the sender key only.
LeftJoinInvoices_SenderOnly(d) ==
  {r \in (DOMAIN d.addresses) \X (DOMAIN d.invoices \cup {NULL}) :
     IF r[2] = NULL
     THEN \A i \in DOMAIN d.invoices : d.invoices[i].senderAddressId # r[1]
     ELSE d.invoices[r[2]].senderAddressId = r[1]}

\* addresses LEFT JOIN invoices ON (addresses.id = sender OR addresses.id =
\* client): one row per matching pair, and one row with a NULL invoice for
\* an address that matches no invoice.
LeftJoinInvoices(d) ==
  {r \in (DOMAIN d.addresses) \X (DOMAIN d.invoices \cup {NULL}) :
     IF r[2] = NULL THEN Referencing(d, r[1]) = {} ELSE r[2] \in Referencing(d, r[1])}

\* The transaction body of cleanupAddresses.
CleanupBody(d, fault) ==
  LET c0 == Begin(d, fault)
      c1 == Exec(c0, c0.db)
      unusedAddresses == {r \in LeftJoinInvoices(c1.db) : r[2] = NULL}
      deletedCount == Cardinality(unusedAddresses)
      addressIds == {r[1] : r \in unusedAddresses}
      c2 == IF deletedCount > 0
            THEN Exec(c1, DeleteIds(c1.db, "addresses", addressIds)) ELSE c1
  IN Return(c2, [deletedCount |-> deletedCount])

\* invoicesRouter.cleanupAddresses (no catch: every error propagates)
CleanupProc(d, fault) == Transaction(d, CleanupBody(d, fault))

(* ------------------------------ getAll --------------------------------- *)
\* A getAll input: a key that is absent is `undefined` (status only; zod
\* fills in the defaults of the other keys).
GetAllInputs ==
  [limit : 1..MaxLimit, offset : 0..MaxOffset,
   sortBy : {"createdAt", "paymentDue", "total"}, sortOrder : {"asc", "desc"}]
  \cup
  [limit : 1..MaxLimit, offset : 0..MaxOffset, status : Statuses,
   sortBy : {"createdAt", "paymentDue", "total"}, sortOrder : {"asc", "desc"}]

\* if (status) query = query.where(eq(invoices.status, status))
Where(d, input) ==
  IF Supplied(input, "status")
  THEN {i \in DOMAIN d.invoices : d.invoices[i].status = input.status}
  ELSE DOMAIN d.invoices

\* ORDER BY that ignores the direction and always sorts descending.
OrderBy_AlwaysDesc(d, ids, sortBy, sortOrder) ==
  {q \in [1..Cardinality(ids) -> ids] :
     /\ \A a, b \in DOMAIN q : a # b => q[a] # q[b]
     /\ \A a, b \in DOMAIN q :
          a < b => d.invoices[q[a]][sortBy] >= d.invoices[q[b]][sortBy]}

\* ORDER BY column ASC|DESC: every arrangement of the rows in which the
\* column never goes the wrong way; the order of equal values is the
\* engine's choice.
OrderBy(d, ids, sortBy, sortOrder) ==
  {q \in [1..Cardinality(ids) -> ids] :
     /\ \A a, b \in DOMAIN q : a # b => q[a] # q[b]
     /\ \A a, b \in DOMAIN q :
          a < b => IF sortOrder = "asc"
                   THEN d.invoices[q[a]][sortBy] <= d.invoices[q[b]][sortBy]
                   ELSE d.invoices[q[a]][sortBy] >= d.invoices[q[b]][sortBy]}

\* LIMIT limit OFFSET offset
LimitOffset(q, limit, offset) ==
  [k \in 1..(IF Len(q) - offset < limit
             THEN (IF Len(q) < offset THEN 0 ELSE Len(q) - offset)
             ELSE limit) |-> q[offset + k]]

\* One row of invoices LEFT JOIN addresses ON senderAddressId = addresses.id:
\* the address part is empty (null) when no address row matches.
JoinSender(d, i) ==
  [id |-> i, invoice |-> d.invoices[i],
   senderAddress |-> IF d.invoices[i].senderAddressId \in DOMAIN d.addresses
                     THEN <<d.addresses[d.invoices[i].senderAddressId]>> ELSE <<>>]

\* invoicesRouter.getAll: the pages the query can return.
GetAllProc(d, input) ==
  {[k \in DOMAIN LimitOffset(q, input.limit, input.offset) |->
      JoinSender(d, LimitOffset(q, input.limit, input.offset)[k])] :
     q \in OrderBy(d, Where(d, input), input.sortBy, input.sortOrder)}

(* ------------------------- the state machine --------------------------- *)
EmptyTable == [id \in {} |-> <<>>]

\* No transaction is running: the calls in flight, one slot per procedure
\* that the concurrent specification runs statement by statement.
Idle == [pc |-> "idle"]
NoTransactions == [delete |-> Idle, update |-> Idle]

\* What the caller can tell of an outcome: "OK", the code of a TRPCError, or
\* the name of any other error.
Code(error) ==
  IF error = NoError THEN "OK"
  ELSE IF error.name = "TRPCError" THEN error.code
  ELSE error.name

Init ==
  /\ addresses = EmptyTable
  /\ invoices = EmptyTable
  /\ invoiceItems = EmptyTable
  /\ autoInc = [addresses |-> 1, invoices |-> 1, invoiceItems |-> 1]
  /\ now = 0
  /\ response = [op |-> "none", code |-> "OK", value |-> <<>>]
  /\ txs = NoTransactions

\* The procedure's outcome becomes the committed state and the response.
Respond(op, r) ==
  /\ addresses' = r.db.addresses
  /\ invoices' = r.db.invoices
  /\ invoiceItems' = r.db.invoiceItems
  /\ autoInc' = r.db.autoInc
  /\ response' = [op |-> op, code |-> Code(r.error), value |-> r.value]
  /\ UNCHANGED <<now, txs>>

Create(input, fault) ==
  /\ autoInc.addresses + 1 <= MaxAddressId
  /\ autoInc.invoices <= MaxInvoiceId
  /\ autoInc.invoiceItems + Len(input.items) - 1 <= MaxItemId
  /\ Respond("create", CreateProc(Db, input, fault))

Update(input, fault) == Respond("update", UpdateProc(Db, input, fault))

Delete(id, fault) == Respond("delete", DeleteProc(Db, id, fault))

AddItem(input, fault) ==
  /\ autoInc.invoiceItems <= MaxItemId
  /\ Respond("addItem", AddItemProc(Db, input, fault))

CleanupAddresses(fault) == Respond("cleanupAddresses", CleanupProc(Db, fault))

\* A read: the tables stay, the response is one of the pages.
GetAll(input) ==
  /\ \E page \in GetAllProc(Db, input) :
       response' = [op |-> "getAll", code |-> "OK", value |-> page]
  /\ UNCHANGED <<addresses, invoices, invoiceItems, autoInc, now, txs>>

\* Time passes.
Tick ==
  /\ now < MaxClock
  /\ now' = now + 1
  /\ UNCHANGED <<addresses, invoices, invoiceItems, autoInc, response, txs>>

InvoiceIdInputs == 1..(MaxInvoiceId + 1)

\* The statement at which the database client fails (0: it does not fail),
\* up to the number of statements the longest run of each body executes.
CreateFaults == 0..4
UpdateFaults == 0..4
DeleteFaults == 0..7
AddItemFaults == 0..2
CleanupFaults == 0..2

(* Spec: the five mutations one at a time, with no failure of the database *)
(* client.  The amounts and the status are fixed; every address id can be  *)
(* supplied, so invoices come to share addresses.                          *)
SpecCreateInputs ==
  {in \in CreateInputs : /\ in.status = "draft" /\ in.paymentDue = 1 /\ in.total = 2
                         /\ in.senderAddress = in.clientAddress
                         /\ in.senderAddress.street = "s1"
                         /\ Len(in.items) = 1 /\ in.items[1].total = 3}

SpecUpdateInputs ==
  {in \in UpdateInputs : DOMAIN in \subseteq {"id", "senderAddressId", "clientAddressId"}}

SpecAddItemInputs == {in \in AddItemInputs : in.item.total = 1}

Next ==
  \/ \E input \in SpecCreateInputs : Create(input, 0)
  \/ \E input \in SpecUpdateInputs : Update(input, 0)
  \/ \E id \in InvoiceIdInputs : Delete(id, 0)
  \/ \E input \in SpecAddItemInputs : AddItem(input, 0)
  \/ CleanupAddresses(0)

Spec == Init /\ [][Next]_vars

(* SpecAmounts: amounts, items, address contents and the clock vary; the   *)
(* status is draft or paid, and address ids are never supplied to update.  *)
AmountsCreateInputs ==
  {in \in CreateInputs : /\ in.paymentDue = 1 /\ in.status \in {"draft", "paid"}
                         /\ in.clientAddress.street = "s1"}

AmountsUpdateInputs ==
  {in \in UpdateInputs : /\ DOMAIN in \subseteq {"id", "status", "total"}
                         /\ Supplied(in, "status") => in.status \in {"draft", "paid"}}

NextAmounts ==
  \/ \E input \in AmountsCreateInputs : Create(input, 0)
  \/ \E input \in AmountsUpdateInputs : Update(input, 0)
  \/ \E id \in InvoiceIdInputs : Delete(id, 0)
  \/ \E input \in AddItemInputs : AddItem(input, 0)
  \/ Tick

SpecAmounts == Init /\ [][NextAmounts]_vars

(* SpecFaults: every mutation, with the database client failing at any     *)
(* statement.                                                              *)
FaultsUpdateInputs ==
  {in \in SpecUpdateInputs :
     \A k \in DOMAIN in \ {"id"} : in[k] \in {NULL, 1, MaxAddressId + 1}}

\* The create input of Spec, and one whose two items do not sum to the total.
FaultsCreateInputs ==
  SpecCreateInputs \cup
  {in \in CreateInputs : /\ in.status = "draft" /\ in.paymentDue = 1 /\ in.total = 1
                         /\ in.senderAddress = in.clientAddress
                         /\ in.senderAddress.street = "s1"
                         /\ Len(in.items) = 2
                         /\ \A k \in DOMAIN in.items : in.items[k].total = 3}

NextFaults ==
  \/ \E input \in FaultsCreateInputs, fault \in CreateFaults : Create(input, fault)
  \/ \E input \in FaultsUpdateInputs, fault \in UpdateFaults : Update(input, fault)
  \/ \E id \in InvoiceIdInputs, fault \in DeleteFaults : Delete(id, fault)
  \/ \E input \in SpecAddItemInputs, fault \in AddItemFaults : AddItem(input, fault)
  \/ \E fault \in CleanupFaults : CleanupAddresses(fault)

SpecFaults == Init /\ [][NextFaults]_vars

(* SpecGetAll: getAll on every content of the invoice table, among them    *)
(* invoices whose sender address row is missing.                           *)
StoredAmounts == {ToDecimal(a) : a \in Amounts}

InvoiceRows ==
  [paymentDue : Dates, status : Statuses, total : StoredAmounts,
   senderAddressId : {NULL, 1}, clientAddressId : {NULL}, createdAt : 0..MaxClock]

InitGetAll ==
  /\ invoices \in UNION {[S -> InvoiceRows] : S \in SUBSET (1..MaxInvoiceId)}
  /\ addresses \in {EmptyTable,
                     1 :> [street |-> "s1", city |-> "c1", postCode |-> "p1", country |-> "FR"]}
  /\ invoiceItems = EmptyTable
  /\ autoInc = [addresses |-> 2, invoices |-> MaxInvoiceId + 1, invoiceItems |-> 1]
  /\ now = MaxClock
  /\ response = [op |-> "none", code |-> "OK", value |-> <<>>]
  /\ txs = NoTransactions

NextGetAll == \E input \in GetAllInputs : GetAll(input)

SpecGetAll == InitGetAll /\ [][NextGetAll]_vars

(* SpecConcurrent: one delete and one update run statement by statement    *)
(* and interleave.  The database is SingleStore, whose transactions are    *)
(* read committed: a statement reads the committed rows and the writes of   *)
(* its own transaction, never the uncommitted writes of another one, and   *)
(* a commit publishes the writes of a transaction at once.  The tables      *)
(* declare no foreign key, and the procedures take no lock.  create runs   *)
(* whole, before the two calls, to fill the tables.                        *)
RECURSIVE Replay(_, _)
\* The writes of a transaction, in the order of its statements, applied to
\* the tables of d.  A write names the rows its WHERE clause matched.
Replay(d, writes) ==
  IF writes = <<>> THEN d
  ELSE LET w == Head(writes)
           d1 == IF w.stmt = "delete" THEN DeleteIds(d, w.table, w.ids)
                 ELSE UpdateInvoice(d, w.id, w.input)
       IN Replay(d1, Tail(writes))

\* The tables as a statement of transaction tx reads them.
View(tx) == Replay(Db, tx.writes)

\* A commit that keeps every address some invoice references.
CommitWrites_KeepReferenced(d, writes) ==
  Replay(d, [k \in DOMAIN writes |->
               IF writes[k].stmt = "delete" /\ writes[k].table = "addresses"
               THEN [writes[k] EXCEPT
                       !.ids = {a \in @ : Referencing(Replay(d, writes), a) = {}}]
               ELSE writes[k]])

\* The commit at the end of ctx.db.transaction: the writes reach the
\* committed tables as they are; nothing is read or checked again.
CommitWrites(d, writes) == Replay(d, writes)

\* The transaction of procedure op moves to tx; the committed tables stay.
Step(op, tx) ==
  /\ txs' = [txs EXCEPT ![op] = tx]
  /\ UNCHANGED <<addresses, invoices, invoiceItems, autoInc, now, response>>

\* The body of procedure op throws: the transaction rolls back (its writes
\* are dropped) and the catch block translates the error.
Abort(op, c) ==
  /\ txs' = [txs EXCEPT ![op].pc = "aborted"]
  /\ response' = [op |-> op, code |-> Code(Catch(c).error), value |-> <<>>]
  /\ UNCHANGED <<addresses, invoices, invoiceItems, autoInc, now>>

\* The body of procedure op returns value: the transaction commits.
Commit(op, value) ==
  LET d == CommitWrites(Db, txs[op].writes)
  IN /\ addresses' = d.addresses
     /\ invoices' = d.invoices
     /\ invoiceItems' = d.invoiceItems
     /\ txs' = [txs EXCEPT ![op].pc = "committed"]
     /\ response' = [op |-> op, code |-> "OK", value |-> value]
     /\ UNCHANGED <<autoInc, now>>

\* A caller invokes delete.
BeginDelete(id) ==
  /\ txs.delete = Idle
  /\ Step("delete", [pc |-> "select", id |-> id, invoice |-> <<>>,
                     inUse |-> <<>>, writes |-> <<>>])

\* const [invoice] = await tx.select()...; if (!invoice) throw
DeleteSelect ==
  LET tx == txs.delete
      v == View(tx)
  IN /\ tx.pc = "select"
     /\ IF tx.id \in DOMAIN v.invoices
        THEN Step("delete", [tx EXCEPT !.invoice = v.invoices[tx.id],
                                       !.pc = "deleteItems"])
        ELSE Abort("delete", Throw(Begin(v, 0),
                                   ReferentialIntegrityError(<<"Invoice not found">>)))

\* await tx.delete(invoiceItems).where(eq(invoiceItems.invoiceId, input.id))
DeleteItems ==
  LET tx == txs.delete
      w == [stmt |-> "delete", table |-> "invoiceItems", ids |-> ItemsOf(View(tx), tx.id)]
  IN /\ tx.pc = "deleteItems"
     /\ Step("delete", [tx EXCEPT !.writes = Append(@, w), !.pc = "deleteInvoice"])

\* await tx.delete(invoices).where(eq(invoices.id, input.id))
DeleteInvoice ==
  LET tx == txs.delete
      w == [stmt |-> "delete", table |-> "invoices",
            ids |-> {tx.id} \cap DOMAIN View(tx).invoices]
  IN /\ tx.pc = "deleteInvoice"
     /\ Step("delete", [tx EXCEPT !.writes = Append(@, w), !.pc = "sender"])

\* if (invoice.<column>) { const inUse = await checkAddressInUse(tx, ...)
DeleteCheckInUse(pc, column, pcNext) ==
  LET tx == txs.delete
  IN /\ tx.pc = pc
     /\ IF tx.invoice[column] = NULL
        THEN Step("delete", [tx EXCEPT !.pc = pcNext])
        ELSE LET inUse == CheckAddressInUse(View(tx), tx.invoice[column])
             IN Step("delete", [tx EXCEPT !.inUse = inUse,
                                          !.pc = IF ~Truthy(inUse) THEN pc \o "Unused"
                                                 ELSE pcNext])

\* if (!inUse) { await tx.delete(addresses).where(eq(addresses.id, ...)) }
DeleteAddress(pc, column, pcNext) ==
  LET tx == txs.delete
      w == [stmt |-> "delete", table |-> "addresses",
            ids |-> {tx.invoice[column]} \cap DOMAIN View(tx).addresses]
  IN /\ tx.pc = pc \o "Unused"
     /\ Step("delete", [tx EXCEPT !.writes = Append(@, w), !.pc = pcNext])

\* return { success: true }
DeleteCommit ==
  /\ txs.delete.pc = "commit"
  /\ Commit("delete", [success |-> TRUE])

\* A caller invokes update.
BeginUpdate(input) ==
  /\ txs.update = Idle
  /\ Step("update", [pc |-> "validateInvoice", input |-> input, writes |-> <<>>])

\* await validateInvoiceExists(tx, input.id)
UpdateValidateInvoice ==
  LET tx == txs.update
      c == ValidateInvoiceExists(Begin(View(tx), 0), tx.input.id)
  IN /\ tx.pc = "validateInvoice"
     /\ IF c.error = NoError THEN Step("update", [tx EXCEPT !.pc = "validateSender"])
        ELSE Abort("update", c)

\* if (input.<column> !== undefined) await validateAddressExists(tx, ...)
UpdateValidateAddress(pc, column, addressType, pcNext) ==
  LET tx == txs.update
      c == IF Supplied(tx.input, column)
           THEN ValidateAddressExists(Begin(View(tx), 0), tx.input[column], addressType)
           ELSE Begin(View(tx), 0)
  IN /\ tx.pc = pc
     /\ IF c.error = NoError THEN Step("update", [tx EXCEPT !.pc = pcNext])
        ELSE Abort("update", c)

\* await tx.update(invoices).set(...).where(eq(invoices.id, input.id))
UpdateSet ==
  LET tx == txs.update
      w == [stmt |-> "update", id |-> tx.input.id, input |-> tx.input]
  IN /\ tx.pc = "update"
     /\ Step("update", [tx EXCEPT !.writes = Append(@, w), !.pc = "commit"])

\* return updatedInvoice
UpdateCommit ==
  /\ txs.update.pc = "commit"
  /\ Commit("update", [affectedRows |-> 1])

\* An update that supplies one address id.
ConcurrentUpdateInputs ==
  {in \in SpecUpdateInputs : /\ Cardinality(DOMAIN in) = 2
                             /\ \A k \in DOMAIN in : in[k] # NULL}

\* create, called before the two concurrent calls.
CreateAlone(input) == txs = NoTransactions /\ Create(input, 0)

NextConcurrent ==
  \/ \E input \in SpecCreateInputs : CreateAlone(input)
  \/ \E id \in InvoiceIdInputs : BeginDelete(id)
  \/ DeleteSelect
  \/ DeleteItems
  \/ DeleteInvoice
  \/ DeleteCheckInUse("sender", "senderAddressId", "client")
  \/ DeleteAddress("sender", "senderAddressId", "client")
  \/ DeleteCheckInUse("client", "clientAddressId", "commit")
  \/ DeleteAddress("client", "clientAddressId", "commit")
  \/ DeleteCommit
  \/ \E input \in ConcurrentUpdateInputs : BeginUpdate(input)
  \/ UpdateValidateInvoice
  \/ UpdateValidateAddress("validateSender", "senderAddressId", "sender", "validateClient")
  \/ UpdateValidateAddress("validateClient", "clientAddressId", "client", "update")
  \/ UpdateSet
  \/ UpdateCommit

SpecConcurrent == Init /\ [][NextConcurrent]_vars

(* ------------------------------ properties ----------------------------- *)
\* The three tables of a database value.
Tables(d) == <<d.addresses, d.invoices, d.invoiceItems>>

\* The sum of item totals differs from the declared total by more than 0.01.
Mismatch(input) == Abs(SumTotals(input.items) - input.total) > TOLERANCE

\* Every row of table `old` is in table `new`, unchanged.
Preserved(old, new) ==
  \A id \in DOMAIN old : id \in DOMAIN new /\ new[id] = old[id]

C2_CreateInsertsLinkedRows ==
  \A input \in AmountsCreateInputs :
    LET r == CreateProc(Db, input, 0)
        newAddresses == DOMAIN r.db.addresses \ DOMAIN addresses
        newInvoices == DOMAIN r.db.invoices \ DOMAIN invoices
        newItems == DOMAIN r.db.invoiceItems \ DOMAIN invoiceItems
    IN (~Mismatch(input) /\ r.error = NoError) =>
         /\ Cardinality(newInvoices) = 1
         /\ Cardinality(newAddresses) = 2
         /\ Cardinality(newItems) = Len(input.items)
         /\ newInvoices = {r.value.id}
         /\ newAddresses = {r.value.senderAddressId, r.value.clientAddressId}
         /\ r.value.senderAddressId # r.value.clientAddressId
         /\ r.db.addresses[r.value.senderAddressId] = input.senderAddress
         /\ r.db.addresses[r.value.clientAddressId] = input.clientAddress
         /\ r.db.invoices[r.value.id].senderAddressId = r.value.senderAddressId
         /\ r.db.invoices[r.value.id].clientAddressId = r.value.clientAddressId
         /\ \A k \in newItems : r.db.invoiceItems[k].invoiceId = r.value.id
         /\ Preserved(addresses, r.db.addresses)
         /\ Preserved(invoices, r.db.invoices)
         /\ Preserved(invoiceItems, r.db.invoiceItems)

\* A second invoice has just been created with two items and with sender
\* and client addresses of equal contents.
C2_Witness ==
  /\ response.op = "create" /\ response.code = "OK"
  /\ Cardinality(DOMAIN invoices) = 2
  /\ response.value.id \in DOMAIN invoices
  /\ Cardinality(ItemsOf(Db, response.value.id)) = 2
  /\ response.value.senderAddressId # response.value.clientAddressId
  /\ addresses[response.value.senderAddressId] = addresses[response.value.clientAddressId]

\* The addresses of invoice id that an invoice other than id references.
StillReferenced(d, id) ==
  {a \in {d.invoices[id].senderAddressId, d.invoices[id].clientAddressId} \ {NULL} :
     \E j \in DOMAIN d.invoices \ {id} :
       d.invoices[j].senderAddressId = a \/ d.invoices[j].clientAddressId = a}

\* C3: delete(id) of an existing invoice removes that invoice and every item
\* of it, removes each of its sender/client addresses that no remaining
\* invoice references, keeps each that another invoice references, and
\* leaves every other invoice, item and address unchanged; also when sender
\* and client are the same address.
C3_DeleteCascade ==
  \A id \in DOMAIN invoices :
    LET r == DeleteProc(Db, id, 0)
        own == {invoices[id].senderAddressId, invoices[id].clientAddressId} \ {NULL}
        gone == own \ StillReferenced(Db, id)
    IN /\ r.error = NoError
       /\ r.db.invoices = Keep(invoices, DOMAIN invoices \ {id})
       /\ r.db.invoiceItems =
            Keep(invoiceItems, {k \in DOMAIN invoiceItems : invoiceItems[k].invoiceId # id})
       /\ r.db.addresses = Keep(addresses, DOMAIN addresses \ gone)

\* Invoice 1 has just been deleted while invoice 2 uses address 1, which was
\* inserted for invoice 1: address 1 is kept, address 2 and the items of
\* invoice 1 are gone, the items of invoice 2 remain.
C3_Witness ==
  /\ response.op = "delete" /\ response.code = "OK"
  /\ DOMAIN invoices = {2}
  /\ Referencing(Db, 1) = {2}
  /\ 1 \in DOMAIN addresses /\ 2 \notin DOMAIN addresses
  /\ ItemsOf(Db, 1) = {} /\ ItemsOf(Db, 2) # {}

\* The update input names no invoice, or a supplied non-null address id
\* names no address.
UpdateDangling(input) ==
  \/ input.id \notin DOMAIN invoices
  \/ /\ Supplied(input, "senderAddressId") /\ input.senderAddressId # NULL
     /\ input.senderAddressId \notin DOMAIN addresses
  \/ /\ Supplied(input, "clientAddressId") /\ input.clientAddressId # NULL
     /\ input.clientAddressId \notin DOMAIN addresses

\* C4: update fails with a bad-request error and changes no row whenever
\* its id names no invoice or a supplied non-null sender/client address id
\* names no address; an explicit null address id is accepted without an
\* existence check and detaches that address from the invoice.
C4_UpdateRejectsDangling ==
  \A input \in SpecUpdateInputs :
    LET r == UpdateProc(Db, input, 0)
    IN IF UpdateDangling(input)
       THEN Code(r.error) = "BAD_REQUEST" /\ Tables(r.db) = tables
       ELSE /\ r.error = NoError
            /\ \A key \in {"senderAddressId", "clientAddressId"} :
                 (Supplied(input, key) /\ input[key] = NULL)
                   => r.db.invoices[input.id][key] = NULL

\* An update has just been refused, in a state where an earlier update
\* detached the client address of an invoice with an explicit null.
C4_Witness ==
  /\ response.op = "update" /\ response.code = "BAD_REQUEST"
  /\ \E i \in DOMAIN invoices : invoices[i].clientAddressId = NULL

\* The addresses that no invoice references.
Unreferenced(d) == {a \in DOMAIN d.addresses : Referencing(d, a) = {}}

\* C5: cleanupAddresses deletes exactly the addresses no invoice references
\* as sender or client, changes no invoice and no item, and returns the
\* number of addresses it removed; a second run right after the first
\* reports deletedCount = 0 and changes nothing.
C5_CleanupExactlyUnreferenced ==
  LET r == CleanupProc(Db, 0)
      again == CleanupProc(r.db, 0)
  IN /\ r.error = NoError
     /\ r.db.addresses = Keep(addresses, DOMAIN addresses \ Unreferenced(Db))
     /\ r.db.invoices = invoices /\ r.db.invoiceItems = invoiceItems
     /\ r.value.deletedCount = Cardinality(DOMAIN addresses \ DOMAIN r.db.addresses)
     /\ again.error = NoError /\ again.value.deletedCount = 0
     /\ Tables(again.db) = Tables(r.db)
     /\ (response.op = "cleanupAddresses" /\ response.code = "OK")
          => (Unreferenced(Db) = {} /\ r.value.deletedCount = 0)

\* cleanupAddresses has just removed an address and kept one that two
\* invoices reference.
C5_Witness ==
  /\ response.op = "cleanupAddresses" /\ response.code = "OK"
  /\ response.value.deletedCount > 0
  /\ \E a \in DOMAIN addresses : Cardinality(Referencing(Db, a)) = 2

\* The invoices a getAll input selects.
Matching(input) ==
  {i \in DOMAIN invoices : Supplied(input, "status") => invoices[i].status = input.status}

\* The number of rows of the page at `offset` of `n` rows, `limit` at most.
PageLength(n, limit, offset) ==
  IF n <= offset THEN 0 ELSE IF n - offset < limit THEN n - offset ELSE limit

\* C6: getAll with sortBy=total and sortOrder=asc returns invoices in
\* non-decreasing order of total; with a status filter it returns only
\* invoices of that status; the result is the filtered, ordered sequence
\* restricted to at most limit rows starting at offset; an invoice whose
\* sender address row is missing is still returned.
C6_GetAllFilteredSortedPage ==
  \A input \in GetAllInputs :
    /\ GetAllProc(Db, input) # {}
    /\ \A page \in GetAllProc(Db, input) :
         LET byTotalAsc == input.sortBy = "total" /\ input.sortOrder = "asc"
         IN /\ Len(page) =
                 PageLength(Cardinality(Matching(input)), input.limit, input.offset)
            /\ \A k \in DOMAIN page :
                 /\ page[k].id \in Matching(input)
                 /\ page[k].invoice = invoices[page[k].id]
                 /\ page[k].senderAddress =
                      IF page[k].invoice.senderAddressId \in DOMAIN addresses
                      THEN <<addresses[page[k].invoice.senderAddressId]>> ELSE <<>>
                 /\ Supplied(input, "status") => page[k].invoice.status = input.status
                 \* the row at position offset + k of the ascending order
                 /\ byTotalAsc =>
                      /\ Cardinality({i \in Matching(input) :
                                        invoices[i].total < page[k].invoice.total})
                           < input.offset + k
                      /\ Cardinality({i \in Matching(input) :
                                        invoices[i].total <= page[k].invoice.total})
                           >= input.offset + k
            /\ \A a, b \in DOMAIN page :
                 /\ a # b => page[a].id # page[b].id
                 /\ (byTotalAsc /\ a < b) => page[a].invoice.total <= page[b].invoice.total

\* getAll has just returned two invoices in increasing order of total, one
\* of them with a sender address id whose address row is missing.
C6_Witness ==
  /\ response.op = "getAll" /\ Len(response.value) = 2
  /\ response.value[1].invoice.total < response.value[2].invoice.total
  /\ \E k \in DOMAIN response.value :
       /\ response.value[k].invoice.senderAddressId # NULL
       /\ response.value[k].senderAddress = <<>>

\* C7: addItem with an invoiceId that names no invoice fails with a
\* bad-request error and inserts no item; with an existing invoiceId it
\* inserts exactly one item row carrying that invoiceId and changes no
\* invoice and no address row.
C7_AddItemValidatesInvoice ==
  \A input \in AddItemInputs :
    LET r == AddItemProc(Db, input, 0)
        newItems == DOMAIN r.db.invoiceItems \ DOMAIN invoiceItems
    IN IF input.invoiceId \notin DOMAIN invoices
       THEN Code(r.error) = "BAD_REQUEST" /\ Tables(r.db) = tables
       ELSE /\ r.error = NoError
            /\ Cardinality(newItems) = 1
            /\ \A k \in newItems : r.db.invoiceItems[k].invoiceId = input.invoiceId
            /\ Preserved(invoiceItems, r.db.invoiceItems)
            /\ r.db.invoices = invoices /\ r.db.addresses = addresses

\* addItem has just added an item to an invoice that had one already.
C7_Witness ==
  /\ response.op = "addItem" /\ response.code = "OK"
  /\ response.value.insertId \in DOMAIN invoiceItems
  /\ invoiceItems[response.value.insertId].invoiceId \in DOMAIN invoices
  /\ Cardinality(ItemsOf(Db, invoiceItems[response.value.insertId].invoiceId)) >= 2

\* The message of the first reference of an update input that names no row,
\* in the order update checks them; <<>> when every reference names a row.
UpdateViolation(input) ==
  IF input.id \notin DOMAIN invoices
  THEN <<"Invoice with ID", input.id, "does not exist">>
  ELSE IF /\ Supplied(input, "senderAddressId") /\ input.senderAddressId # NULL
          /\ input.senderAddressId \notin DOMAIN addresses
  THEN <<"sender", "address with ID", input.senderAddressId, "does not exist">>
  ELSE IF /\ Supplied(input, "clientAddressId") /\ input.clientAddressId # NULL
          /\ input.clientAddressId \notin DOMAIN addresses
  THEN <<"client", "address with ID", input.clientAddressId, "does not exist">>
  ELSE <<>>

\* The outcome `error` of a procedure run with the client failing at `fault`,
\* where `violation` is the message of the missing reference (<<>>: none)
\* and `other` the error the body raises on its own account (NoError: none).
ErrorsTranslated(error, fault, violation, other) ==
  \* a bad request is a referential-integrity failure, with its message
  /\ error.name = "TRPCError"
       => violation # <<>> /\ error = TRPCError("BAD_REQUEST", violation)
  /\ (fault = 0 /\ violation # <<>>) => error = TRPCError("BAD_REQUEST", violation)
  \* every other failure is the error that was raised
  /\ other # NoError => error = other
  /\ (fault = 1 /\ other = NoError) => error = DriverError
  /\ error.name # "TRPCError" => error \in {NoError, DriverError, other}

\* C8: in create, update, delete and addItem a referential-integrity failure
\* (missing invoice or address) reaches the caller as a bad request with the
\* failure's message, and every failure of another kind reaches the caller
\* unchanged, never as a bad request.
C8_OnlyIntegrityErrorsBecomeBadRequest ==
  /\ \A input \in FaultsCreateInputs, fault \in CreateFaults :
       ErrorsTranslated(CreateProc(Db, input, fault).error, fault, <<>>,
         IF Mismatch(input)
         THEN GenericError(<<"Items total does not match invoice total">>)
         ELSE NoError)
  /\ \A input \in FaultsUpdateInputs, fault \in UpdateFaults :
       ErrorsTranslated(UpdateProc(Db, input, fault).error, fault,
                        UpdateViolation(input), NoError)
  /\ \A id \in InvoiceIdInputs, fault \in DeleteFaults :
       ErrorsTranslated(DeleteProc(Db, id, fault).error, fault,
         IF id \in DOMAIN invoices THEN <<>> ELSE <<"Invoice not found">>, NoError)
  /\ \A input \in SpecAddItemInputs, fault \in AddItemFaults :
       ErrorsTranslated(AddItemProc(Db, input, fault).error, fault,
         IF input.invoiceId \in DOMAIN invoices THEN <<>>
         ELSE <<"Invoice with ID", input.invoiceId, "does not exist">>, NoError)

\* A failure of the database client during update has just reached the
\* caller as it was raised.
C8_Witness ==
  /\ response.op = "update" /\ response.code = "DriverError"
  /\ DOMAIN invoices # {}

\* C9: create, update, delete, addItem and cleanupAddresses are
\* all-or-nothing: when one fails, also after some of its writes and before
\* its last, the committed tables are those of before it started.
C9_AllOrNothing ==
  /\ \A input \in FaultsCreateInputs, fault \in CreateFaults :
       LET r == CreateProc(Db, input, fault)
       IN r.error # NoError => Tables(r.db) = tables
  /\ \A input \in FaultsUpdateInputs, fault \in UpdateFaults :
       LET r == UpdateProc(Db, input, fault)
       IN r.error # NoError => Tables(r.db) = tables
  /\ \A id \in InvoiceIdInputs, fault \in DeleteFaults :
       LET r == DeleteProc(Db, id, fault)
       IN r.error # NoError => Tables(r.db) = tables
  /\ \A input \in SpecAddItemInputs, fault \in AddItemFaults :
       LET r == AddItemProc(Db, input, fault)
       IN r.error # NoError => Tables(r.db) = tables
  /\ \A fault \in CleanupFaults :
       LET r == CleanupProc(Db, fault)
       IN r.error # NoError => Tables(r.db) = tables

\* A create has just failed after its two address inserts: two address ids
\* are used up, no invoice id is, and no row is stored.
C9_Witness ==
  /\ response.op = "create" /\ response.code = "DriverError"
  /\ autoInc.addresses = 3 /\ autoInc.invoices = 1
  /\ addresses = EmptyTable /\ invoices = EmptyTable /\ invoiceItems = EmptyTable

RECURSIVE SumItems(_, _)
\* The sum of the stored totals of the items in ids.
SumItems(d, ids) ==
  IF ids = {} THEN 0
  ELSE LET k == CHOOSE x \in ids : TRUE
       IN d.invoiceItems[k].total + SumItems(d, ids \ {k})

\* The stored total of invoice id and the sum of the stored totals of its
\* items differ by more than 0.01.
Drifted(d, id) ==
  Abs(d.invoices[id].total - SumItems(d, ItemsOf(d, id))) > TOLERANCE

\* C10: after a successful create the invoice's total equals the sum of its
\* items' totals within 0.01 (later addItem and update calls do not keep
\* this: they neither check nor adjust the other side).
C10_CreatedTotalMatchesItems ==
  (response.op = "create" /\ response.code = "OK")
    => ~Drifted(Db, response.value.id)

\* C11: checkAddressInUse(id) returns a boolean, true exactly when at least
\* one invoice row has senderAddressId = id or clientAddressId = id.
C11_InUseIsBoolean ==
  \A addressId \in 1..(MaxAddressId + 1) :
     LET inUse == CheckAddressInUse(Db, addressId)
     IN /\ inUse.type = "boolean"
        /\ inUse.value <=> (Referencing(Db, addressId) # {})

\* The addresses a transaction's writes delete.
DeletedAddresses(writes) ==
  UNION {writes[k].ids : k \in {n \in DOMAIN writes : /\ writes[n].stmt = "delete"
                                                      /\ writes[n].table = "addresses"}}

\* Transaction del deleted the address that transaction upd wrote into
\* `column` of an invoice that is still there; both have committed.
Raced(del, upd, column) ==
  /\ del.pc = "committed" /\ upd.pc = "committed"
  /\ Supplied(upd.input, column)
  /\ upd.input[column] \in DeletedAddresses(del.writes)
  /\ upd.input.id \in DOMAIN invoices

\* C12: with the statements of a delete and an update interleaving, each
\* transaction atomic at commit and blind to the other's uncommitted writes,
\* a delete that removes address A (its invoice was the only one referencing
\* A when it counted) and an update that attaches A to another invoice both
\* commit whatever the order, and the other invoice is left naming the
\* deleted address row: no commit is refused and no write is checked again.
C12_RaceLeavesDanglingAddress ==
  \A column \in {"senderAddressId", "clientAddressId"} :
     Raced(txs.delete, txs.update, column)
       => /\ invoices[txs.update.input.id][column] = txs.update.input[column]
          /\ txs.update.input[column] \notin DOMAIN addresses

C12_Witness ==
  \E column \in {"senderAddressId", "clientAddressId"} :
     /\ Raced(txs.delete, txs.update, column)
     /\ txs.delete.id \notin DOMAIN invoices
     /\ txs.update.input.id # txs.delete.id
     /\ invoices[txs.update.input.id][column] \notin DOMAIN addresses

\* C13: from empty stores, after any sequence of create, update, delete,
\* addItem and cleanupAddresses calls run one at a time, every non-null
\* senderAddressId and clientAddressId of every invoice names an address row
\* that exists.
C13_AddressReferencesExist ==
  \A i \in DOMAIN invoices :
     \A column \in {"senderAddressId", "clientAddressId"} :
        invoices[i][column] = NULL \/ invoices[i][column] \in DOMAIN addresses

\* A delete has removed one of two invoices, and the invoice that is left
\* names an address that create inserted for the other one.
C13_Witness ==
  /\ response.op = "delete" /\ response.code = "OK"
  /\ autoInc.invoices = 3 /\ Cardinality(DOMAIN invoices) = 1
  /\ \E i \in DOMAIN invoices :
        \E column \in {"senderAddressId", "clientAddressId"} :
           /\ invoices[i][column] \notin {NULL, 2 * i - 1, 2 * i}
           /\ invoices[i][column] \in DOMAIN addresses

\* Every item row names an invoice row that exists, and every invoice has
\* at least the one item create inserts with it.
NoOrphanedItems ==
  /\ \A k \in DOMAIN invoiceItems : invoiceItems[k].invoiceId \in DOMAIN invoices
  /\ \A i \in DOMAIN invoices : ItemsOf(Db, i) # {}

\* A call removes or changes no item of an invoice that is there after it.
ItemsKept ==
  \A k \in DOMAIN invoiceItems :
     invoiceItems[k].invoiceId \in DOMAIN invoices'
       => k \in DOMAIN invoiceItems' /\ invoiceItems'[k] = invoiceItems[k]

\* C14: from empty stores, after any sequence of create, update, delete,
\* addItem and cleanupAddresses calls run one at a time, every item row's
\* invoiceId names an invoice row that exists, and an invoice that create
\* made and delete has not removed has all the items inserted for it.
C14_NoOrphansItemsKept == []NoOrphanedItems /\ [][ItemsKept]_vars

\* A delete has removed one of two invoices; the invoice that is left has
\* the item of its create and an item of addItem.
C14_Witness ==
  /\ response.op = "delete" /\ response.code = "OK"
  /\ autoInc.invoices = 3 /\ Cardinality(DOMAIN invoices) = 1
  /\ \E i \in DOMAIN invoices : Cardinality(ItemsOf(Db, i)) >= 2
====
